---- MODULE Spec2Model ----
(***************************************************************************)
(* Model of one_d_code/one_d_profiles.py: the three lens mass profiles     *)
(* SphericalPowerLaw, Hernquist and NFW_Hilbert, their constructors and    *)
(* their four evaluators over arrays of radii.                             *)
(*                                                                         *)
(* Numbers.  A float is modelled as an extended rational <<n, d>> in       *)
(* lowest terms with d >= 0.  d = 0 carries the IEEE special values that   *)
(* numpy produces instead of raising: <<1,0>> is +inf, <<-1,0>> is -inf    *)
(* and <<0,0>> is NaN.  Finite arithmetic is exact (no rounding).          *)
(* Irrational functions (sqrt, arctan, arctanh, log) are tabulated to      *)
(* two decimals at the arguments the model's inputs produce.             *)
(***************************************************************************)
EXTENDS Integers, Sequences, FiniteSets, TLC

VARIABLES cosmo, col_current, profile, last

vars == <<cosmo, col_current, profile, last>>

(***************************************************************************)
(* Bounds of the model.                                                    *)
(***************************************************************************)
MaxLen == 2
MaxSlope == 3

(***************************************************************************)
(* Extended rational arithmetic with numpy's inf / NaN conventions.        *)
(***************************************************************************)
Sign(n) == IF n > 0 THEN 1 ELSE IF n < 0 THEN -1 ELSE 0

Abs(n) == IF n < 0 THEN -n ELSE n

RECURSIVE GCD(_, _)
GCD(a, b) == IF b = 0 THEN a ELSE GCD(b, a % b)

Norm(n, d) ==
  IF d = 0 THEN <<Sign(n), 0>>
  ELSE LET g == GCD(Abs(n), Abs(d))
           s == Sign(d)
       IN <<(s * n) \div g, (s * d) \div g>>

Zero == <<0, 1>>
One == <<1, 1>>
Two == <<2, 1>>
Inf == <<1, 0>>
NaN == <<0, 0>>

Num(k) == <<k, 1>>

IsNaN(a) == a = NaN

IsFinite(a) == a[2] # 0

RNeg(a) == <<-a[1], a[2]>>

RMul(a, b) ==
  IF a[2] = 0 \/ b[2] = 0 THEN <<Sign(a[1]) * Sign(b[1]), 0>>
  ELSE LET g1 == GCD(Abs(a[1]), b[2])
           g2 == GCD(Abs(b[1]), a[2])
       IN Norm((a[1] \div g1) * (b[1] \div g2), (a[2] \div g2) * (b[2] \div g1))

RRecip(a) ==
  IF a[1] = 0 THEN (IF a[2] = 0 THEN NaN ELSE Inf)
  ELSE IF a[1] > 0 THEN <<a[2], a[1]>> ELSE <<-a[2], -a[1]>>

RDiv(a, b) == RMul(a, RRecip(b))

RAdd(a, b) ==
  IF a[2] = 0 /\ b[2] = 0 THEN (IF a = b THEN a ELSE NaN)
  ELSE IF a[2] = 0 THEN a
  ELSE IF b[2] = 0 THEN b
  ELSE LET g == GCD(a[2], b[2])
       IN Norm(a[1] * (b[2] \div g) + b[1] * (a[2] \div g), (a[2] \div g) * b[2])

RSub(a, b) == RAdd(a, RNeg(b))

RECURSIVE RPow(_, _)
RPow(a, k) ==
  IF k = 0 THEN One
  ELSE IF k < 0 THEN RRecip(RPow(a, -k))
  ELSE RMul(a, RPow(a, k - 1))

REq(a, b) == ~IsNaN(a) /\ ~IsNaN(b) /\ a = b

RLess(a, b) ==
  /\ ~IsNaN(a)
  /\ ~IsNaN(b)
  /\ IF a[2] = 0 /\ b[2] = 0 THEN a[1] < b[1]
     ELSE a[1] * b[2] < b[1] * a[2]

RLeq(a, b) == RLess(a, b) \/ REq(a, b)

(***************************************************************************)
(* numpy scalar functions, tabulated to two decimals.                    *)
(***************************************************************************)
np_pi == <<22, 7>>

np_sqrt(a) ==
  CASE a = Inf -> Inf
    [] a = <<15, 16>> -> <<97, 100>>
    [] a = <<3, 4>> -> <<87, 100>>
    [] a = <<3, 1>> -> <<173, 100>>

np_arctanh(a) ==
  CASE a = <<97, 100>> -> <<103, 50>>
    [] a = <<87, 100>> -> <<33, 25>>

np_arctan(a) ==
  CASE a = Inf -> RDiv(np_pi, Two)
    [] a = <<173, 100>> -> <<21, 20>>

np_log(a) ==
  CASE a = Inf -> Inf
    [] a = One -> Zero
    [] a = <<3, 1>> -> <<11, 10>>
    [] a = <<5, 1>> -> <<161, 100>>
    [] a = <<1, 8>> -> <<-207, 100>>
    [] a = <<1, 4>> -> <<-69, 50>>
    [] a = <<1, 2>> -> <<-69, 100>>

(***************************************************************************)
(* np.where(cond, a, b), element-wise on one element.                      *)
(***************************************************************************)
np_where(cond, a, b) == IF cond THEN a ELSE b

(***************************************************************************)
(* astropy cosmology Planck15 (module global cosmo, line 10): stand-in     *)
(* distances in Gpc at the model's redshifts.                              *)
(***************************************************************************)
Redshifts == {<<1, 2>>, <<1, 1>>}

angular_diameter_distance(z) ==
  CASE z = <<1, 2>> -> <<6, 5>>
    [] z = <<1, 1>> -> <<17, 10>>

angular_diameter_distance_z1z2(z1, z2) ==
  CASE z1 = z2 -> Zero
    [] z1 = <<1, 2>> /\ z2 = <<1, 1>> -> <<3, 4>>
    [] z1 = <<1, 1>> /\ z2 = <<1, 2>> -> <<-1, 1>>

critical_density(z) ==
  CASE z = <<1, 2>> -> <<35, 29326>>
    [] z = <<1, 1>> -> <<140, 14663>>

(***************************************************************************)
(* lens_profile.LensProfile, the base class of the three profiles.         *)
(***************************************************************************)
c2_over_G == <<4, 1>>

critical_surface_density(z_l, z_s) ==
  RMul(RDiv(c2_over_G, RMul(Num(4), np_pi)),
       RDiv(angular_diameter_distance(z_s),
            RMul(angular_diameter_distance(z_l),
                 angular_diameter_distance_z1z2(z_l, z_s))))

LensProfile__init__(z_l, z_s) ==
  IF RLeq(z_s, z_l)
  THEN [err |-> "InvalidRedshift"]
  ELSE [err |-> "",
        self |-> [z_l |-> z_l, z_s |-> z_s,
                  critical_surface_density_of_lens |->
                      critical_surface_density(z_l, z_s)]]

f_func(x) ==
  IF REq(x, One) THEN One
  ELSE IF RLess(x, One)
       THEN LET s == np_sqrt(RSub(One, RPow(x, 2))) IN RDiv(np_arctanh(s), s)
       ELSE LET s == np_sqrt(RSub(RPow(x, 2), One)) IN RDiv(np_arctan(s), s)

(***************************************************************************)
(* Inputs.                                                                 *)
(***************************************************************************)
Radii == {One, Two, Inf}

RadiiArrays == UNION {[1..n -> Radii] : n \in 1..MaxLen}

EinsteinRadii == {One, Two}

Slopes == 1..MaxSlope

NoProfile == [cls |-> "none"]

(***************************************************************************)
(* class SphericalPowerLaw                                                 *)
(***************************************************************************)
SphericalPowerLaw__init__(einstein_radius, slope, z_s, z_l) ==
  LET base == LensProfile__init__(z_l, z_s) IN
  IF base.err # "" THEN base
  ELSE LET sigma_cr == base.self.critical_surface_density_of_lens
           m_ein == RMul(RMul(np_pi, RPow(einstein_radius, 2)), sigma_cr)
       IN [err |-> "",
           self |-> [cls |-> "SphericalPowerLaw",
                     z_l |-> z_l, z_s |-> z_s,
                     critical_surface_density_of_lens |-> sigma_cr,
                     einstein_radius |-> einstein_radius,
                     slope |-> slope,
                     m_ein |-> m_ein,
                     rho_s |-> RDiv(m_ein, RMul(np_pi, RPow(einstein_radius, 2)))]]

SphericalPowerLaw_density(self, r) ==
  RMul(self.critical_surface_density_of_lens, RPow(RDiv(One, r), self.slope))

SphericalPowerLaw_surface_mass_density(self, r) ==
  RMul(RMul(self.critical_surface_density_of_lens, RDiv(Num(3 - self.slope), Two)),
       RPow(RDiv(self.einstein_radius, r), self.slope - 1))

SphericalPowerLaw_convergence_coeff(self, r) ==
  RMul(RDiv(Num(2 - self.slope), Two),
       RPow(RDiv(self.einstein_radius, r), self.slope - 1))

SphericalPowerLaw_convergence(self, r) ==
  RMul(RDiv(Num(3 - self.slope), Two),
       RPow(RDiv(self.einstein_radius, r), self.slope - 1))

SphericalPowerLaw_deflection_angles_exp(self, r) ==
  RMul(self.einstein_radius, RPow(RDiv(self.einstein_radius, r), self.slope - 1))

SphericalPowerLaw_deflection_angles(self, r) ==
  RMul(self.einstein_radius, RPow(RDiv(self.einstein_radius, r), self.slope - 2))

(***************************************************************************)
(* class Hernquist                                                         *)
(***************************************************************************)
Masses == {One, Two}

EffectiveRadii == {<<18153, 10000>>, <<18153, 5000>>}

Hernquist__init__swapped(mass, effective_radius, z_s, z_l) ==
  LET base == LensProfile__init__(z_s, z_l) IN
  IF base.err # "" THEN base
  ELSE LET sigma_cr == base.self.critical_surface_density_of_lens
           r_s == RDiv(effective_radius, <<18153, 10000>>)
           rho_s == RDiv(mass, RMul(RMul(Two, np_pi), RPow(r_s, 3)))
       IN [err |-> "",
           self |-> [cls |-> "Hernquist",
                     z_l |-> z_l, z_s |-> z_s,
                     critical_surface_density_of_lens |-> sigma_cr,
                     mass |-> mass,
                     effective_radius |-> effective_radius,
                     half_mass_radius |-> RMul(effective_radius, <<133, 100>>),
                     r_s |-> r_s,
                     rho_s |-> rho_s,
                     kappa_s |-> RDiv(RMul(rho_s, r_s), sigma_cr)]]

Hernquist__init__(mass, effective_radius, z_s, z_l) ==
  LET base == LensProfile__init__(z_l, z_s) IN
  IF base.err # "" THEN base
  ELSE LET sigma_cr == base.self.critical_surface_density_of_lens
           r_s == RDiv(effective_radius, <<18153, 10000>>)
           rho_s == RDiv(mass, RMul(RMul(Two, np_pi), RPow(r_s, 3)))
       IN [err |-> "",
           self |-> [cls |-> "Hernquist",
                     z_l |-> z_l, z_s |-> z_s,
                     critical_surface_density_of_lens |-> sigma_cr,
                     mass |-> mass,
                     effective_radius |-> effective_radius,
                     half_mass_radius |-> RMul(effective_radius, <<133, 100>>),
                     r_s |-> r_s,
                     rho_s |-> rho_s,
                     kappa_s |-> RDiv(RMul(rho_s, r_s), sigma_cr)]]

Hernquist_density(self, r) ==
  LET x == RDiv(r, self.r_s)
  IN RDiv(self.rho_s, RMul(x, RPow(RAdd(One, x), 3)))

Hernquist_surface_mass_density(self, r) ==
  LET x == RDiv(r, self.r_s)
      f == f_func(x)
  IN np_where(REq(f, Zero), Zero,
              RMul(RDiv(RMul(self.rho_s, self.r_s), RPow(RSub(RPow(x, 2), One), 2)),
                   RAdd(Num(-3), RMul(RSub(One, f), RAdd(Two, RPow(x, 2))))))

Hernquist_convergence_unmasked(self, r) ==
  LET x == RDiv(r, self.r_s)
      f == f_func(x)
  IN RMul(RDiv(self.kappa_s, RPow(RSub(RPow(x, 2), One), 2)),
          RAdd(Num(-3), RMul(RSub(One, f), RAdd(Two, RPow(x, 2)))))

Hernquist_convergence(self, r) ==
  LET x == RDiv(r, self.r_s)
      f == f_func(x)
  IN np_where(REq(f, Zero), Zero,
              RMul(RDiv(self.kappa_s, RPow(RSub(RPow(x, 2), One), 2)),
                   RAdd(Num(-3), RMul(RSub(One, f), RAdd(Two, RPow(x, 2))))))

Hernquist_deflection_angles(self, r) ==
  LET x == RDiv(r, self.r_s)
      f == f_func(x)
  IN np_where(REq(f, Zero), Zero,
              RMul(RMul(RMul(Two, self.kappa_s), self.r_s),
                   RDiv(RMul(x, f), RSub(RPow(x, 2), One))))

(***************************************************************************)
(* colossus: the library's global current cosmology and its                *)
(* concentration-mass relation (stand-in values).                          *)
(***************************************************************************)
setCosmology_other(name) == "planck18"

setCosmology(name) == name

col_h(c) == IF c = "planck15" THEN <<6774, 10000>> ELSE <<6766, 10000>>

col_concentration(M, mdef, z, model) ==
  IF RLess(M, Num(100)) THEN Num(4) ELSE Two

CubeRoots == 0..8

Cbrt(a) ==
  <<CHOOSE n \in CubeRoots : n * n * n = a[1],
    CHOOSE d \in CubeRoots : d * d * d = a[2]>>

(***************************************************************************)
(* class NFW_Hilbert                                                       *)
(***************************************************************************)
M200s == {<<64, 1>>, <<512, 1>>}

NFW_Hilbert__init__(m200, z_s, z_l) ==
  LET base == LensProfile__init__(z_l, z_s) IN
  IF base.err # "" THEN base
  ELSE LET sigma_cr == base.self.critical_surface_density_of_lens
           col_cosmo == setCosmology("planck15")
           concentration == col_concentration(RMul(m200, col_h(col_cosmo)), "200c",
                                              z_l, "ludlow16")
           r200 == Cbrt(RDiv(m200,
                             RMul(RMul(RMul(<<1333, 1000>>, np_pi), Num(200)),
                                  critical_density(z_l))))
           r_s == RDiv(r200, concentration)
           rho_s == RDiv(m200,
                         RMul(RMul(RMul(Num(4), np_pi), RPow(r_s, 3)),
                              RSub(np_log(RAdd(One, concentration)),
                                   RDiv(concentration, RAdd(One, concentration)))))
       IN [err |-> "",
           col_current |-> col_cosmo,
           self |-> [cls |-> "NFW_Hilbert",
                     z_l |-> z_l, z_s |-> z_s,
                     critical_surface_density_of_lens |-> sigma_cr,
                     m200 |-> m200,
                     concentration |-> concentration,
                     r200 |-> r200,
                     r_s |-> r_s,
                     rho_s |-> rho_s,
                     kappa_s |-> RDiv(RMul(rho_s, r_s), sigma_cr)]]

NFW_Hilbert_density_times(self, r) ==
  LET x == RDiv(r, self.r_s)
  IN RMul(self.rho_s, RMul(x, RPow(RAdd(One, x), 2)))

NFW_Hilbert_density(self, r) ==
  LET x == RDiv(r, self.r_s)
  IN RDiv(self.rho_s, RMul(x, RPow(RAdd(One, x), 2)))

NFW_Hilbert_surface_mass_density(self, r) ==
  LET x == RDiv(r, self.r_s)
      f == f_func(x)
      sigma == RMul(RMul(RMul(Two, self.rho_s), self.r_s),
                    RDiv(f, RSub(RPow(x, 2), One)))
  IN np_where(REq(f, Zero), Zero, sigma)

NFW_Hilbert_convergence_rho(self, r) ==
  LET x == RDiv(r, self.r_s)
      f == f_func(x)
      kappa == RDiv(RMul(RMul(Two, self.rho_s), f), RSub(RPow(x, 2), One))
  IN np_where(REq(f, Zero), Zero, kappa)

NFW_Hilbert_convergence(self, r) ==
  LET x == RDiv(r, self.r_s)
      f == f_func(x)
      kappa == RDiv(RMul(RMul(Two, self.kappa_s), f), RSub(RPow(x, 2), One))
  IN np_where(REq(f, Zero), Zero, kappa)

NFW_Hilbert_deflection_angles(self, r) ==
  LET x == RDiv(r, self.r_s)
      f == f_func(x)
  IN RMul(RMul(RMul(Num(4), self.kappa_s), self.r_s),
          RDiv(RAdd(np_log(RDiv(x, Two)), RSub(One, f)), x))

(***************************************************************************)
(* The program: a caller holds one profile reference, constructs profiles  *)
(* and calls evaluators on the profile it holds.  last records the most    *)
(* recent call and what it returned or raised.                             *)
(***************************************************************************)
Init ==
  /\ cosmo = "Planck15"
  /\ col_current = "unset"
  /\ profile = NoProfile
  /\ last = [op |-> "none"]

Construct(cls, r, z_s, z_l) ==
  /\ last' = [op |-> "__init__", cls |-> cls, z_s |-> z_s, z_l |-> z_l, err |-> r.err]
  /\ profile' = IF r.err = "" THEN r.self ELSE profile
  /\ UNCHANGED cosmo

NewSphericalPowerLaw ==
  \E einstein_radius \in EinsteinRadii, slope \in Slopes, z_s \in Redshifts, z_l \in Redshifts :
     /\ Construct("SphericalPowerLaw",
                  SphericalPowerLaw__init__(einstein_radius, slope, z_s, z_l), z_s, z_l)
     /\ UNCHANGED col_current

NewHernquist ==
  \E mass \in Masses, effective_radius \in EffectiveRadii, z_s \in Redshifts, z_l \in Redshifts :
     /\ Construct("Hernquist", Hernquist__init__(mass, effective_radius, z_s, z_l), z_s, z_l)
     /\ UNCHANGED col_current

NewNFW_Hilbert ==
  \E m200 \in M200s, z_s \in Redshifts, z_l \in Redshifts :
     LET r == NFW_Hilbert__init__(m200, z_s, z_l) IN
     /\ Construct("NFW_Hilbert", r, z_s, z_l)
     /\ col_current' = IF r.err = "" THEN r.col_current ELSE col_current

SphericalPowerLaw_density_from_radii ==
  /\ profile.cls = "SphericalPowerLaw"
  /\ \E radii \in RadiiArrays :
        last' = [op |-> "density_from_radii", cls |-> "SphericalPowerLaw", radii |-> radii,
                 out |-> [i \in 1..Len(radii) |-> SphericalPowerLaw_density(profile, radii[i])]]
  /\ UNCHANGED <<cosmo, col_current, profile>>

SphericalPowerLaw_surface_mass_density_from_radii ==
  /\ profile.cls = "SphericalPowerLaw"
  /\ \E radii \in RadiiArrays :
        last' = [op |-> "surface_mass_density_from_radii", cls |-> "SphericalPowerLaw", radii |-> radii,
                 out |-> [i \in 1..Len(radii) |-> SphericalPowerLaw_surface_mass_density(profile, radii[i])]]
  /\ UNCHANGED <<cosmo, col_current, profile>>

SphericalPowerLaw_convergence_from_radii ==
  /\ profile.cls = "SphericalPowerLaw"
  /\ \E radii \in RadiiArrays :
        last' = [op |-> "convergence_from_radii", cls |-> "SphericalPowerLaw", radii |-> radii,
                 out |-> [i \in 1..Len(radii) |-> SphericalPowerLaw_convergence(profile, radii[i])]]
  /\ UNCHANGED <<cosmo, col_current, profile>>

SphericalPowerLaw_deflection_angles_from_radii ==
  /\ profile.cls = "SphericalPowerLaw"
  /\ \E radii \in RadiiArrays :
        last' = [op |-> "deflection_angles_from_radii", cls |-> "SphericalPowerLaw", radii |-> radii,
                 out |-> [i \in 1..Len(radii) |-> SphericalPowerLaw_deflection_angles(profile, radii[i])]]
  /\ UNCHANGED <<cosmo, col_current, profile>>

Hernquist_density_from_radii_rescaling ==
  /\ profile.cls = "Hernquist"
  /\ \E radii \in RadiiArrays :
        /\ last' = [op |-> "density_from_radii", cls |-> "Hernquist", radii |-> radii,
                    out |-> [i \in 1..Len(radii) |-> Hernquist_density(profile, radii[i])]]
        /\ profile' = [profile EXCEPT !.r_s = RDiv(radii[1], profile.r_s)]
  /\ UNCHANGED <<cosmo, col_current>>

Hernquist_density_from_radii ==
  /\ profile.cls = "Hernquist"
  /\ \E radii \in RadiiArrays :
        last' = [op |-> "density_from_radii", cls |-> "Hernquist", radii |-> radii,
                 out |-> [i \in 1..Len(radii) |-> Hernquist_density(profile, radii[i])]]
  /\ UNCHANGED <<cosmo, col_current, profile>>

Hernquist_surface_mass_density_from_radii ==
  /\ profile.cls = "Hernquist"
  /\ \E radii \in RadiiArrays :
        last' = [op |-> "surface_mass_density_from_radii", cls |-> "Hernquist", radii |-> radii,
                 out |-> [i \in 1..Len(radii) |-> Hernquist_surface_mass_density(profile, radii[i])]]
  /\ UNCHANGED <<cosmo, col_current, profile>>

Hernquist_convergence_from_radii ==
  /\ profile.cls = "Hernquist"
  /\ \E radii \in RadiiArrays :
        last' = [op |-> "convergence_from_radii", cls |-> "Hernquist", radii |-> radii,
                 out |-> [i \in 1..Len(radii) |-> Hernquist_convergence(profile, radii[i])]]
  /\ UNCHANGED <<cosmo, col_current, profile>>

Hernquist_deflection_angles_from_radii ==
  /\ profile.cls = "Hernquist"
  /\ \E radii \in RadiiArrays :
        last' = [op |-> "deflection_angles_from_radii", cls |-> "Hernquist", radii |-> radii,
                 out |-> [i \in 1..Len(radii) |-> Hernquist_deflection_angles(profile, radii[i])]]
  /\ UNCHANGED <<cosmo, col_current, profile>>

NFW_Hilbert_density_from_radii ==
  /\ profile.cls = "NFW_Hilbert"
  /\ \E radii \in RadiiArrays :
        last' = [op |-> "density_from_radii", cls |-> "NFW_Hilbert", radii |-> radii,
                 out |-> [i \in 1..Len(radii) |-> NFW_Hilbert_density(profile, radii[i])]]
  /\ UNCHANGED <<cosmo, col_current, profile>>

NFW_Hilbert_surface_mass_density_from_radii ==
  /\ profile.cls = "NFW_Hilbert"
  /\ \E radii \in RadiiArrays :
        last' = [op |-> "surface_mass_density_from_radii", cls |-> "NFW_Hilbert", radii |-> radii,
                 out |-> [i \in 1..Len(radii) |-> NFW_Hilbert_surface_mass_density(profile, radii[i])]]
  /\ UNCHANGED <<cosmo, col_current, profile>>

NFW_Hilbert_convergence_from_radii ==
  /\ profile.cls = "NFW_Hilbert"
  /\ \E radii \in RadiiArrays :
        last' = [op |-> "convergence_from_radii", cls |-> "NFW_Hilbert", radii |-> radii,
                 out |-> [i \in 1..Len(radii) |-> NFW_Hilbert_convergence(profile, radii[i])]]
  /\ UNCHANGED <<cosmo, col_current, profile>>

NFW_Hilbert_deflection_angles_from_radii ==
  /\ profile.cls = "NFW_Hilbert"
  /\ \E radii \in RadiiArrays :
        last' = [op |-> "deflection_angles_from_radii", cls |-> "NFW_Hilbert", radii |-> radii,
                 out |-> [i \in 1..Len(radii) |-> NFW_Hilbert_deflection_angles(profile, radii[i])]]
  /\ UNCHANGED <<cosmo, col_current, profile>>

Next ==
  \/ NewSphericalPowerLaw
  \/ NewHernquist
  \/ NewNFW_Hilbert
  \/ SphericalPowerLaw_density_from_radii
  \/ SphericalPowerLaw_surface_mass_density_from_radii
  \/ SphericalPowerLaw_convergence_from_radii
  \/ SphericalPowerLaw_deflection_angles_from_radii
  \/ Hernquist_density_from_radii
  \/ Hernquist_surface_mass_density_from_radii
  \/ Hernquist_convergence_from_radii
  \/ Hernquist_deflection_angles_from_radii
  \/ NFW_Hilbert_density_from_radii
  \/ NFW_Hilbert_surface_mass_density_from_radii
  \/ NFW_Hilbert_convergence_from_radii
  \/ NFW_Hilbert_deflection_angles_from_radii

Spec == Init /\ [][Next]_vars

TypeOK ==
  /\ cosmo \in {"Planck15"}
  /\ col_current \in {"unset", "planck15"}
  /\ profile.cls \in {"none", "SphericalPowerLaw", "Hernquist", "NFW_Hilbert"}
  /\ last.op \in {"none", "__init__", "density_from_radii",
                  "surface_mass_density_from_radii", "convergence_from_radii",
                  "deflection_angles_from_radii"}

(***************************************************************************)
(* Properties.                                                             *)
(***************************************************************************)
EvaluatorOps ==
  {"density_from_radii", "surface_mass_density_from_radii",
   "convergence_from_radii", "deflection_angles_from_radii"}

Called(cls, op) == last.op = op /\ last.cls = cls

Elems == IF last.op \in EvaluatorOps THEN 1..Len(last.radii) ELSE {}

\* C1: for each of the three profile types and every radius at which both
\* evaluators are defined (neither is NaN), the surface mass density equals
\* the convergence multiplied by critical_surface_density_of_lens.
C1_SurfaceDensityIsConvergenceTimesSigmaCr ==
  LET sigma_cr == profile.critical_surface_density_of_lens
      kappa(r) == CASE profile.cls = "SphericalPowerLaw" -> SphericalPowerLaw_convergence(profile, r)
                    [] profile.cls = "Hernquist" -> Hernquist_convergence(profile, r)
                    [] profile.cls = "NFW_Hilbert" -> NFW_Hilbert_convergence(profile, r)
      sigma(r) == CASE profile.cls = "SphericalPowerLaw" -> SphericalPowerLaw_surface_mass_density(profile, r)
                    [] profile.cls = "Hernquist" -> Hernquist_surface_mass_density(profile, r)
                    [] profile.cls = "NFW_Hilbert" -> NFW_Hilbert_surface_mass_density(profile, r)
  IN /\ last.op = "surface_mass_density_from_radii" =>
          \A i \in Elems :
             LET k == kappa(last.radii[i]) IN
             (~IsNaN(last.out[i]) /\ ~IsNaN(k)) => REq(last.out[i], RMul(k, sigma_cr))
     /\ last.op = "convergence_from_radii" =>
          \A i \in Elems :
             LET sg == sigma(last.radii[i]) IN
             (~IsNaN(last.out[i]) /\ ~IsNaN(sg)) => REq(sg, RMul(last.out[i], sigma_cr))

C1_Witness ==
  /\ Called("NFW_Hilbert", "convergence_from_radii")
  /\ \E i \in Elems : IsFinite(last.out[i]) /\ last.out[i] # Zero
                        /\ ~REq(last.radii[i], profile.r_s)

\* C2: a Hernquist convergence evaluated at R = r_s (x = 1, f = 1) is finite
\* and strictly positive.
C2_HernquistConvergenceAtScaleRadiusFinitePositive ==
  Called("Hernquist", "convergence_from_radii") =>
     \A i \in Elems :
        REq(last.radii[i], profile.r_s) =>
           IsFinite(last.out[i]) /\ RLess(Zero, last.out[i])

\* C3: an NFW_Hilbert surface mass density or convergence evaluated at
\* R = r_s (x = 1, f = 1) is the finite closed-form limit (2/3 of
\* rho_s * r_s, respectively 2/3 of kappa_s), never NaN or infinite.
C3_NFWAtScaleRadiusIsFiniteLimit ==
  /\ Called("NFW_Hilbert", "surface_mass_density_from_radii") =>
        \A i \in Elems :
           REq(last.radii[i], profile.r_s) =>
              /\ IsFinite(last.out[i])
              /\ last.out[i] = RMul(<<2, 3>>, RMul(profile.rho_s, profile.r_s))
  /\ Called("NFW_Hilbert", "convergence_from_radii") =>
        \A i \in Elems :
           REq(last.radii[i], profile.r_s) =>
              /\ IsFinite(last.out[i])
              /\ last.out[i] = RMul(<<2, 3>>, profile.kappa_s)

\* C4: a SphericalPowerLaw with slope 2 deflects by einstein_radius at every
\* radius R > 0.
C4_IsothermalDeflectionIsEinsteinRadius ==
  (Called("SphericalPowerLaw", "deflection_angles_from_radii") /\ profile.slope = 2) =>
     \A i \in Elems : last.out[i] = profile.einstein_radius

C4_Witness ==
  /\ Called("SphericalPowerLaw", "deflection_angles_from_radii")
  /\ profile.slope = 2
  /\ \E i \in Elems : IsFinite(last.radii[i]) /\ last.radii[i] # profile.einstein_radius
  /\ \E i \in Elems : last.radii[i] = Inf

\* C5: a constructor called with z_s <= z_l raises InvalidRedshift, and no
\* profile with z_s <= z_l is ever held.
C5_InvalidRedshiftRejected ==
  /\ (last.op = "__init__" /\ RLeq(last.z_s, last.z_l)) => last.err = "InvalidRedshift"
  /\ profile.cls # "none" => RLess(profile.z_l, profile.z_s)

C5_Witness ==
  /\ last.op = "__init__"
  /\ last.cls = "Hernquist"
  /\ RLess(last.z_s, last.z_l)
  /\ last.err = "InvalidRedshift"

\* C6: a step that returns from an evaluator leaves every attribute of the
\* profile, and the cosmology globals, unchanged.
C6_EvaluatorsLeaveProfileUnchanged ==
  [][(last' # last /\ last'.op \in EvaluatorOps) =>
        (profile' = profile /\ cosmo' = cosmo /\ col_current' = col_current)]_vars

C6_Witness ==
  /\ Called("Hernquist", "density_from_radii")
  /\ Len(last.radii) = MaxLen
  /\ profile = Hernquist__init__(profile.mass, profile.effective_radius,
                                  profile.z_s, profile.z_l).self

\* C7: the NFW_Hilbert density is strictly decreasing in the radius: for two
\* radii R1 < R2 of one call, density(R1) > density(R2).
C7_NFWDensityStrictlyDecreasing ==
  Called("NFW_Hilbert", "density_from_radii") =>
     \A i \in Elems, j \in Elems :
        RLess(last.radii[i], last.radii[j]) => RLess(last.out[j], last.out[i])

C7_Witness ==
  /\ Called("NFW_Hilbert", "density_from_radii")
  /\ RLess(Zero, profile.r_s) /\ RLess(Zero, profile.rho_s)
  /\ \E i \in Elems, j \in Elems :
        /\ RLess(last.radii[i], last.radii[j])
        /\ IsFinite(last.radii[j])
        /\ RLess(Zero, last.out[j])

\* C8: in every reachable state the astropy cosmology is Planck15 and the
\* concentration library's global cosmology, once set, is planck15; an
\* NFW_Hilbert profile exists only with that global set to planck15.
C8_CosmologyIsPlanck15 ==
  /\ cosmo = "Planck15"
  /\ col_current \in {"unset", "planck15"}
  /\ profile.cls = "NFW_Hilbert" => col_current = "planck15"

C8_Witness ==
  /\ col_current = "planck15"
  /\ Called("Hernquist", "convergence_from_radii")

\* C9: in the five masked evaluators every output element whose f(x) is 0
\* is exactly 0, every other element is the unmasked closed-form expression,
\* and the output has one element per input radius.
C9_MaskedWhereFIsZero ==
  LET x(i) == RDiv(last.radii[i], profile.r_s)
      f(i) == f_func(x(i))
      x2m1(i) == RSub(RMul(x(i), x(i)), One)
      bracket(i) == RAdd(Num(-3), RMul(RSub(One, f(i)), RAdd(Two, RMul(x(i), x(i)))))
      masked(i, closed) == last.out[i] = IF f(i) = Zero THEN Zero ELSE closed
  IN /\ last.op \in EvaluatorOps => Len(last.out) = Len(last.radii)
     /\ Called("Hernquist", "surface_mass_density_from_radii") =>
           \A i \in Elems :
              masked(i, RMul(RDiv(RMul(profile.rho_s, profile.r_s), RMul(x2m1(i), x2m1(i))),
                             bracket(i)))
     /\ Called("Hernquist", "convergence_from_radii") =>
           \A i \in Elems :
              masked(i, RMul(RDiv(profile.kappa_s, RMul(x2m1(i), x2m1(i))), bracket(i)))
     /\ Called("Hernquist", "deflection_angles_from_radii") =>
           \A i \in Elems :
              masked(i, RMul(RMul(Two, RMul(profile.kappa_s, profile.r_s)),
                             RDiv(RMul(x(i), f(i)), x2m1(i))))
     /\ Called("NFW_Hilbert", "surface_mass_density_from_radii") =>
           \A i \in Elems :
              masked(i, RMul(RMul(Two, RMul(profile.rho_s, profile.r_s)),
                             RDiv(f(i), x2m1(i))))
     /\ Called("NFW_Hilbert", "convergence_from_radii") =>
           \A i \in Elems :
              masked(i, RDiv(RMul(RMul(Two, profile.kappa_s), f(i)), x2m1(i)))

C9_Witness ==
  /\ Called("Hernquist", "convergence_from_radii")
  /\ \E i \in Elems : f_func(RDiv(last.radii[i], profile.r_s)) = Zero /\ last.out[i] = Zero
  /\ \E i \in Elems : f_func(RDiv(last.radii[i], profile.r_s)) # Zero /\ last.out[i] # Zero

\* C10: a SphericalPowerLaw of any slope evaluated at its Einstein radius E
\* deflects by E and has convergence (3 - slope) / 2.
C10_AtEinsteinRadius ==
  /\ Called("SphericalPowerLaw", "deflection_angles_from_radii") =>
        \A i \in Elems :
           last.radii[i] = profile.einstein_radius => last.out[i] = profile.einstein_radius
  /\ Called("SphericalPowerLaw", "convergence_from_radii") =>
        \A i \in Elems :
           last.radii[i] = profile.einstein_radius =>
              last.out[i] = Norm(3 - profile.slope, 2)

C10_Witness ==
  /\ Called("SphericalPowerLaw", "convergence_from_radii")
  /\ profile.slope # 2
  /\ profile.einstein_radius = Two
  /\ \E i \in Elems : last.radii[i] = profile.einstein_radius

====
